---- MODULE Spec2Model ----
(***************************************************************************)
(* A model of ast2c_convert.py: the declarator-name resolver get_declname, *)
(* the recursive tree-to-text generator generate_code, and the command     *)
(* line entry point main.                                                  *)
(*                                                                         *)
(* Python values are modelled as records [kind, v]:                        *)
(*   "str"   v = the characters, a sequence of one-character strings       *)
(*   "num"   v = <<n>>, a natural number                                   *)
(*   "null"  v = <<>>   (None)                                             *)
(*   "list"  v = the elements                                              *)
(*   "dict"  v = the items <<key, value>> in insertion order, keys being   *)
(*               character sequences                                       *)
(*   "error" v = <<>>   an uncaught exception (AttributeError, TypeError)  *)
(* JSON true/false and fractional numbers are not among the inputs.        *)
(***************************************************************************)
EXTENDS Integers, Sequences, FiniteSets, TLC

VARIABLES
    pc,        \* main: position in main()
    argv,      \* main: the command-line arguments after the script name
    file,      \* main: what open()/json.load() will find
    ast,       \* main: the decoded root, once ingestion succeeded
    ingest,    \* main: "notstarted" | "failed" | "ok"
    genCalls,  \* main: the arguments of every generate_code call main made
    out,       \* main: everything printed, in order
    node,      \* harness: the tree handed to the function under study
    level,     \* harness: the indent level argument
    in_param,  \* harness: the parameter-context flag argument
    fn,        \* harness: "none" | "generate_code" | "get_declname"
    result     \* harness: the value the call returned

mainVars == <<pc, argv, file, ast, ingest, genCalls, out>>
callVars == <<node, level, in_param, fn, result>>
vars == <<pc, argv, file, ast, ingest, genCalls, out, node, level, in_param, fn, result>>

\* Dictionary keys read by the generator (src/ast2c_convert.py), as character sequences.
K_nodetype == <<"_", "n", "o", "d", "e", "t", "y", "p", "e">>
K_ext == <<"e", "x", "t">>
K_type == <<"t", "y", "p", "e">>
K_name == <<"n", "a", "m", "e">>
K_args == <<"a", "r", "g", "s">>
K_params == <<"p", "a", "r", "a", "m", "s">>
K_init == <<"i", "n", "i", "t">>
K_decl == <<"d", "e", "c", "l">>
K_body == <<"b", "o", "d", "y">>
K_declname == <<"d", "e", "c", "l", "n", "a", "m", "e">>
K_names == <<"n", "a", "m", "e", "s">>
K_block_items == <<"b", "l", "o", "c", "k", "_", "i", "t", "e", "m", "s">>
K_expr == <<"e", "x", "p", "r">>
K_exprs == <<"e", "x", "p", "r", "s">>
K_lvalue == <<"l", "v", "a", "l", "u", "e">>
K_rvalue == <<"r", "v", "a", "l", "u", "e">>
K_op == <<"o", "p">>
K_left == <<"l", "e", "f", "t">>
K_right == <<"r", "i", "g", "h", "t">>
K_value == <<"v", "a", "l", "u", "e">>
K_cond == <<"c", "o", "n", "d">>
K_iftrue == <<"i", "f", "t", "r", "u", "e">>
K_iffalse == <<"i", "f", "f", "a", "l", "s", "e">>
K_stmt == <<"s", "t", "m", "t">>
K_subscript == <<"s", "u", "b", "s", "c", "r", "i", "p", "t">>
K_coord == <<"c", "o", "o", "r", "d">>
K_attr == <<"a", "t", "t", "r">>
K_quals == <<"q", "u", "a", "l", "s">>

\* Node tags ('_nodetype' values).
T_FileAST == <<"F", "i", "l", "e", "A", "S", "T">>
T_Decl == <<"D", "e", "c", "l">>
T_FuncDef == <<"F", "u", "n", "c", "D", "e", "f">>
T_FuncDecl == <<"F", "u", "n", "c", "D", "e", "c", "l">>
T_TypeDecl == <<"T", "y", "p", "e", "D", "e", "c", "l">>
T_IdentifierType == <<"I", "d", "e", "n", "t", "i", "f", "i", "e", "r", "T", "y", "p", "e">>
T_PtrDecl == <<"P", "t", "r", "D", "e", "c", "l">>
T_Typename == <<"T", "y", "p", "e", "n", "a", "m", "e">>
T_Compound == <<"C", "o", "m", "p", "o", "u", "n", "d">>
T_Return == <<"R", "e", "t", "u", "r", "n">>
T_FuncCall == <<"F", "u", "n", "c", "C", "a", "l", "l">>
T_Assignment == <<"A", "s", "s", "i", "g", "n", "m", "e", "n", "t">>
T_BinaryOp == <<"B", "i", "n", "a", "r", "y", "O", "p">>
T_ID == <<"I", "D">>
T_Constant == <<"C", "o", "n", "s", "t", "a", "n", "t">>
T_If == <<"I", "f">>
T_While == <<"W", "h", "i", "l", "e">>
T_ArrayRef == <<"A", "r", "r", "a", "y", "R", "e", "f">>
T_ParamList == <<"P", "a", "r", "a", "m", "L", "i", "s", "t">>
T_ExprList == <<"E", "x", "p", "r", "L", "i", "s", "t">>
T_Pragma == <<"P", "r", "a", "g", "m", "a">>
T_Cast == <<"C", "a", "s", "t">>


\* String literals of the generator.
L_empty == <<>>
L_blankline == <<"\n", "\n">>
L_newline == <<"\n">>
L_comma == <<",", " ">>
L_void == <<"v", "o", "i", "d">>
L_lparen == <<"(">>
L_rparen == <<")">>
L_space == <<" ">>
L_assign == <<" ", "=", " ">>
L_semi == <<";">>
L_ptr == <<" ", "*">>
L_lbrace == <<"{">>
L_rbrace == <<"}">>
L_return == <<"r", "e", "t", "u", "r", "n", " ">>
L_return_semi == <<"r", "e", "t", "u", "r", "n", ";">>
L_eq == <<"=">>
L_if == <<"i", "f", " ", "(">>
L_close == <<")", " ">>
L_else == <<" ", "e", "l", "s", "e", " ">>
L_while == <<"w", "h", "i", "l", "e", " ", "(">>
L_lbracket == <<"[">>
L_rbracket == <<"]">>
L_None == <<"N", "o", "n", "e">>
L_indent == <<" ", " ", " ", " ">>

\* Identifiers and tokens used to build input trees.
N_int == <<"i", "n", "t">>
N_char == <<"c", "h", "a", "r">>
N_x == <<"x">>
N_f == <<"f">>
N_a == <<"a">>
N_b == <<"b">>
N_add == <<"a", "d", "d">>
N_name == <<"n", "a", "m", "e">>
N_plus == <<"+">>
N_one == <<"1">>

(***************************************************************************)
(* Python values and the built-in operations the program applies to them.  *)
(***************************************************************************)
Str(s) == [kind |-> "str", v |-> s]
Num(n) == [kind |-> "num", v |-> <<n>>]
None == [kind |-> "null", v |-> <<>>]
List(items) == [kind |-> "list", v |-> items]
Dict(items) == [kind |-> "dict", v |-> items]
\* An exception that nothing in generate_code or get_declname catches.
Err == [kind |-> "error", v |-> <<>>]

\* a == b on Python values
SameValue(a, b) == a.kind = b.kind /\ a.v = b.v

\* bool(x): None, 0, "", [] and {} are falsy
Truthy(x) ==
    CASE x.kind = "null" -> FALSE
      [] x.kind = "num" -> x.v[1] # 0
      [] OTHER -> x.v # <<>>

\* key in d
Has(d, key) == \E i \in 1..Len(d.v) : d.v[i][1] = key
\* d[key]
Lookup(d, key) == d.v[CHOOSE i \in 1..Len(d.v) : d.v[i][1] = key][2]
\* d.get(key)
Get(d, key) == IF Has(d, key) THEN Lookup(d, key) ELSE None
\* d.get(key, default)
GetD(d, key, default) == IF Has(d, key) THEN Lookup(d, key) ELSE default
\* d.values(), in insertion order
Values(d) == [i \in 1..Len(d.v) |-> d.v[i][2]]

\* a + b where one operand is a str: concatenation, TypeError unless both are
Add(a, b) == IF a.kind = "str" /\ b.kind = "str" THEN Str(a.v \o b.v) ELSE Err

\* for item in x: lists, strings (characters) and dicts (keys) iterate,
\* None and numbers raise TypeError
Iterable(x) == x.kind \in {"list", "str", "dict"}
Elems(x) ==
    CASE x.kind = "list" -> x.v
      [] x.kind = "str" -> [i \in 1..Len(x.v) |-> Str(<<x.v[i]>>)]
      [] x.kind = "dict" -> [i \in 1..Len(x.v) |-> Str(x.v[i][1])]
      [] OTHER -> <<>>

RECURSIVE JoinChars(_, _)
JoinChars(sep, items) ==
    IF items = <<>> THEN <<>>
    ELSE IF Len(items) = 1 THEN items[1].v
    ELSE items[1].v \o sep \o JoinChars(sep, Tail(items))

\* sep.join(items): TypeError unless every item is a str
Join(sep, items) ==
    IF \A i \in 1..Len(items) : items[i].kind = "str"
    THEN Str(JoinChars(sep, items))
    ELSE Err

Whitespace == {" ", "\n"}

RECURSIVE SplitFrom(_, _, _)
SplitFrom(s, cur, acc) ==
    IF s = <<>> THEN (IF cur = <<>> THEN acc ELSE Append(acc, cur))
    ELSE IF Head(s) \in Whitespace
         THEN SplitFrom(Tail(s), <<>>, IF cur = <<>> THEN acc ELSE Append(acc, cur))
         ELSE SplitFrom(Tail(s), Append(cur, Head(s)), acc)

\* s.split(): the maximal runs of non-whitespace characters
Split(s) == SplitFrom(s, <<>>, <<>>)

\* s.endswith(suffix)
EndsWith(s, suffix) ==
    Len(s) >= Len(suffix) /\ SubSeq(s, Len(s) - Len(suffix) + 1, Len(s)) = suffix

\* s.startswith(prefix)
StartsWith(s, prefix) == Len(s) >= Len(prefix) /\ SubSeq(s, 1, Len(prefix)) = prefix

Digits == <<"0", "1", "2", "3", "4", "5", "6", "7", "8", "9">>

RECURSIVE Decimal(_)
Decimal(n) ==
    IF n < 10 THEN <<Digits[n + 1]>>
    ELSE Decimal(n \div 10) \o <<Digits[(n % 10) + 1]>>

\* str(x) of a primitive
PyStr(x) ==
    CASE x.kind = "str" -> x
      [] x.kind = "num" -> Str(Decimal(x.v[1]))
      [] OTHER -> Str(L_None)

(***************************************************************************)
(* indent_str and get_declname                                             *)
(***************************************************************************)
RECURSIVE indent_str(_)
indent_str(lvl) == IF lvl = 0 THEN <<>> ELSE L_indent \o indent_str(lvl - 1)

RECURSIVE get_declname(_)
RECURSIVE FirstDeclname(_)
\* the loops of get_declname: the first truthy result over the values, or None
FirstDeclname(values) ==
    IF values = <<>> THEN None
    ELSE LET r == get_declname(Head(values))
         IN IF Truthy(r) THEN r ELSE FirstDeclname(Tail(values))

\* Variant of get_declname: the node's own 'declname' is consulted only after
\* its children.
get_declname_children_first(n) ==
    IF n.kind = "dict"
    THEN LET found == FirstDeclname(Values(n))
         IN IF Truthy(found) THEN found
            ELSE IF Has(n, K_declname) /\ Truthy(Lookup(n, K_declname))
                 THEN Lookup(n, K_declname)
                 ELSE None
    ELSE IF n.kind = "list" THEN FirstDeclname(n.v)
    ELSE None

get_declname(n) ==
    IF n.kind = "dict"
    THEN IF Has(n, K_declname) /\ Truthy(Lookup(n, K_declname))
         THEN Lookup(n, K_declname)
         ELSE FirstDeclname(Values(n))
    ELSE IF n.kind = "list" THEN FirstDeclname(n.v)
    ELSE None

(***************************************************************************)
(* generate_code, one operator per branch of its dispatch                  *)
(***************************************************************************)
RECURSIVE generate_code(_, _, _)

\* [generate_code(item, lvl, inp) for item in items]
GenEach(items, lvl, inp) == [i \in 1..Len(items) |-> generate_code(items[i], lvl, inp)]

IsTag(n, tag) == SameValue(GetD(n, K_nodetype, Str(L_empty)), Str(tag))

Indented(lvl, code) == Add(Str(indent_str(lvl)), code)

GenFileAST(n, lvl) ==
    LET ext == GetD(n, K_ext, List(<<>>))
    IN IF ~Iterable(ext) THEN Err
       ELSE Join(L_blankline, GenEach(Elems(ext), lvl, FALSE))

\* Variant of ParamsCode: the empty parameter text is not replaced by "void".
ParamsCodeNoVoid(args_node, lvl) ==
    IF Truthy(args_node)
    THEN IF args_node.kind # "dict" THEN Err
         ELSE LET params == GetD(args_node, K_params, List(<<>>))
              IN IF ~Iterable(params) THEN Err
                 ELSE Join(L_comma, GenEach(Elems(params), lvl, TRUE))
    ELSE Str(L_void)

\* the parameter list text of a function declaration
ParamsCode(args_node, lvl) ==
    IF Truthy(args_node)
    THEN IF args_node.kind # "dict" THEN Err
         ELSE LET params == GetD(args_node, K_params, List(<<>>))
              IN IF ~Iterable(params) THEN Err
                 ELSE LET params_code == Join(L_comma, GenEach(Elems(params), lvl, TRUE))
                      IN IF SameValue(params_code, Str(L_empty))
                         THEN Str(L_void)
                         ELSE params_code
    ELSE Str(L_void)

\* the return type text followed, unless its last token is the name, by the name
NamedRetType(ret_type, fn_name) ==
    IF ret_type.kind # "str" THEN Err
    ELSE LET tokens == Split(ret_type.v)
         IN IF tokens # <<>> /\ SameValue(Str(tokens[Len(tokens)]), fn_name)
            THEN ret_type
            ELSE Add(Add(ret_type, Str(L_space)), fn_name)

WithInit(n, code_line, lvl) ==
    LET init == Get(n, K_init)
    IN IF init.kind # "null"
       THEN Add(Add(code_line, Str(L_assign)), generate_code(init, lvl, FALSE))
       ELSE code_line

\* what a Decl returns for its finished code_line
DeclResult(code_line, lvl, inp) == IF ~inp THEN Indented(lvl, code_line) ELSE code_line

GenDeclFunc(n, type_node, lvl, inp) ==
    LET ret_type == generate_code(Get(type_node, K_type), lvl, inp)
        fn_name == GetD(n, K_name, Str(L_empty))
        params_code == ParamsCode(Get(type_node, K_args), lvl)
        code_line == Add(Add(Add(NamedRetType(ret_type, fn_name), Str(L_lparen)),
                             params_code), Str(L_rparen))
    IN DeclResult(WithInit(n, code_line, lvl), lvl, inp)

\* code_line after the type and the name of a non-function declaration
TypeAndName(type_code, declname, name) ==
    LET typed == IF Truthy(type_code) THEN Add(Str(L_empty), type_code) ELSE Str(L_empty)
    IN IF type_code.kind = "error" THEN Err
       ELSE IF Truthy(name) /\ (declname.kind = "null" \/ ~SameValue(declname, name))
            THEN Add(typed, Add(Str(L_space), name))
            ELSE typed

GenDeclVar(n, type_node, lvl, inp) ==
    LET type_code == generate_code(type_node, lvl, inp)
        name == GetD(n, K_name, Str(L_empty))
        code_line == TypeAndName(type_code, get_declname(type_node), name)
    IN DeclResult(WithInit(n, code_line, lvl), lvl, inp)

GenDecl(n, lvl, inp) ==
    LET type_node == Get(n, K_type)
    IN IF Truthy(type_node)
       THEN IF type_node.kind # "dict" THEN Err
            ELSE IF SameValue(Get(type_node, K_nodetype), Str(T_FuncDecl))
                 THEN GenDeclFunc(n, type_node, lvl, inp)
                 ELSE GenDeclVar(n, type_node, lvl, inp)
       ELSE GenDeclVar(n, type_node, lvl, inp)

\* Variant of GenFuncDef: the body starts on a line of its own.
GenFuncDefNewline(n, lvl) ==
    LET decl_code == generate_code(Get(n, K_decl), lvl, FALSE)
        body_code == generate_code(Get(n, K_body), lvl, FALSE)
    IN IF decl_code.kind # "str" THEN Err
       ELSE LET stripped == IF EndsWith(decl_code.v, L_semi)
                            THEN SubSeq(decl_code.v, 1, Len(decl_code.v) - 1)
                            ELSE decl_code.v
            IN Add(Add(Str(stripped), Str(L_newline)), body_code)

GenFuncDef(n, lvl) ==
    LET decl_code == generate_code(Get(n, K_decl), lvl, FALSE)
        body_code == generate_code(Get(n, K_body), lvl, FALSE)
    IN IF decl_code.kind # "str" THEN Err
       ELSE LET stripped == IF EndsWith(decl_code.v, L_semi)
                            THEN SubSeq(decl_code.v, 1, Len(decl_code.v) - 1)
                            ELSE decl_code.v
            IN Add(Add(Str(stripped), Str(L_space)), body_code)

GenTypeDecl(n, lvl, inp) ==
    LET inner == generate_code(Get(n, K_type), lvl, inp)
        declname == Get(n, K_declname)
    IN IF Truthy(declname)
       THEN Add(Add(inner, Str(L_space)), declname)
       ELSE inner

GenIdentifierType(n) ==
    LET names == GetD(n, K_names, List(<<>>))
    IN IF ~Iterable(names) THEN Err ELSE Join(L_space, Elems(names))

GenPtrDecl(n, lvl, inp) == Add(generate_code(Get(n, K_type), lvl, inp), Str(L_ptr))

GenTypename(n, lvl, inp) == generate_code(Get(n, K_type), lvl, inp)

GenCompound(n, lvl) ==
    LET given == Get(n, K_block_items)
        block_items == IF Truthy(given) THEN given ELSE List(<<>>)
    IN IF ~Iterable(block_items) THEN Err
       ELSE Join(L_newline,
                 <<Str(indent_str(lvl) \o L_lbrace)>>
                 \o GenEach(Elems(block_items), lvl + 1, FALSE)
                 \o <<Str(indent_str(lvl) \o L_rbrace)>>)

GenReturn(n, lvl) ==
    LET expr == Get(n, K_expr)
    IN IF Truthy(expr)
       THEN Add(Add(Str(indent_str(lvl) \o L_return), generate_code(expr, lvl, FALSE)),
                Str(L_semi))
       ELSE Str(indent_str(lvl) \o L_return_semi)

GenFuncCall(n, lvl, inp) ==
    LET name_code == generate_code(Get(n, K_name), lvl, inp)
        args_node == Get(n, K_args)
        args == IF Truthy(args_node)
                THEN IF args_node.kind # "dict" THEN Err
                     ELSE LET exprs == GetD(args_node, K_exprs, List(<<>>))
                          IN IF ~Iterable(exprs) THEN Err
                             ELSE Join(L_comma, GenEach(Elems(exprs), lvl, FALSE))
                ELSE Str(L_empty)
    IN Add(Add(Add(name_code, Str(L_lparen)), args), Str(L_rparen))

GenAssignment(n, lvl, inp) ==
    LET lvalue == generate_code(Get(n, K_lvalue), lvl, inp)
        rvalue == generate_code(Get(n, K_rvalue), lvl, inp)
        op == GetD(n, K_op, Str(L_eq))
    IN Add(Add(Add(Add(Add(Add(Str(indent_str(lvl)), lvalue), Str(L_space)), op),
                   Str(L_space)), rvalue), Str(L_semi))

GenBinaryOp(n, lvl, inp) ==
    LET left == generate_code(Get(n, K_left), lvl, inp)
        right == generate_code(Get(n, K_right), lvl, inp)
        op == GetD(n, K_op, Str(L_empty))
    IN Add(Add(Add(Add(Add(Add(Str(L_lparen), left), Str(L_space)), op),
                   Str(L_space)), right), Str(L_rparen))

GenID(n) == GetD(n, K_name, Str(L_empty))

GenConstant(n) == GetD(n, K_value, Str(L_empty))

GenIf(n, lvl, inp) ==
    LET cond == generate_code(Get(n, K_cond), lvl, inp)
        iftrue == generate_code(Get(n, K_iftrue), lvl, inp)
        code == Add(Add(Add(Str(indent_str(lvl) \o L_if), cond), Str(L_close)), iftrue)
    IN IF Truthy(Get(n, K_iffalse))
       THEN Add(Add(code, Str(L_else)), generate_code(Get(n, K_iffalse), lvl, inp))
       ELSE code

GenWhile(n, lvl, inp) ==
    LET cond == generate_code(Get(n, K_cond), lvl, inp)
        stmt == generate_code(Get(n, K_stmt), lvl, inp)
    IN Add(Add(Add(Str(indent_str(lvl) \o L_while), cond), Str(L_close)), stmt)

GenArrayRef(n, lvl, inp) ==
    LET arr == generate_code(Get(n, K_name), lvl, inp)
        sub == generate_code(Get(n, K_subscript), lvl, inp)
    IN Add(Add(Add(arr, Str(L_lbracket)), sub), Str(L_rbracket))

\* the renderings the fallback loop appends, in order: one per dict-valued
\* field, one per element of a list-valued field, none for a primitive field
RECURSIVE FallbackParts(_, _, _)
FallbackParts(values, lvl, inp) ==
    IF values = <<>> THEN <<>>
    ELSE LET value == Head(values)
             here == IF value.kind = "dict" THEN <<generate_code(value, lvl, inp)>>
                     ELSE IF value.kind = "list" THEN GenEach(value.v, lvl, inp)
                     ELSE <<>>
         IN here \o FallbackParts(Tail(values), lvl, inp)

\* code = ""; code += part, for each part
RECURSIVE Accumulate(_, _)
Accumulate(code, parts) ==
    IF parts = <<>> THEN code ELSE Accumulate(Add(code, Head(parts)), Tail(parts))

\* Variant of GenFallback: primitive fields are rendered too.
RECURSIVE FallbackPartsWithPrimitives(_, _, _)
FallbackPartsWithPrimitives(values, lvl, inp) ==
    IF values = <<>> THEN <<>>
    ELSE LET value == Head(values)
             here == IF value.kind = "list" THEN GenEach(value.v, lvl, inp)
                     ELSE <<generate_code(value, lvl, inp)>>
         IN here \o FallbackPartsWithPrimitives(Tail(values), lvl, inp)

GenFallbackWithPrimitives(n, lvl, inp) ==
    Accumulate(Str(L_empty), FallbackPartsWithPrimitives(Values(n), lvl, inp))

GenFallback(n, lvl, inp) == Accumulate(Str(L_empty), FallbackParts(Values(n), lvl, inp))

GenList(n, lvl, inp) == Join(L_newline, GenEach(n.v, lvl, inp))

generate_code(n, lvl, inp) ==
    IF n.kind = "dict"
    THEN CASE IsTag(n, T_FileAST) -> GenFileAST(n, lvl)
           [] IsTag(n, T_Decl) -> GenDecl(n, lvl, inp)
           [] IsTag(n, T_FuncDef) -> GenFuncDef(n, lvl)
           [] IsTag(n, T_FuncDecl) -> Str(L_empty)
           [] IsTag(n, T_TypeDecl) -> GenTypeDecl(n, lvl, inp)
           [] IsTag(n, T_IdentifierType) -> GenIdentifierType(n)
           [] IsTag(n, T_PtrDecl) -> GenPtrDecl(n, lvl, inp)
           [] IsTag(n, T_Typename) -> GenTypename(n, lvl, inp)
           [] IsTag(n, T_Compound) -> GenCompound(n, lvl)
           [] IsTag(n, T_Return) -> GenReturn(n, lvl)
           [] IsTag(n, T_FuncCall) -> GenFuncCall(n, lvl, inp)
           [] IsTag(n, T_Assignment) -> GenAssignment(n, lvl, inp)
           [] IsTag(n, T_BinaryOp) -> GenBinaryOp(n, lvl, inp)
           [] IsTag(n, T_ID) -> GenID(n)
           [] IsTag(n, T_Constant) -> GenConstant(n)
           [] IsTag(n, T_If) -> GenIf(n, lvl, inp)
           [] IsTag(n, T_While) -> GenWhile(n, lvl, inp)
           [] IsTag(n, T_ArrayRef) -> GenArrayRef(n, lvl, inp)
           [] OTHER -> GenFallback(n, lvl, inp)
    ELSE IF n.kind = "list" THEN GenList(n, lvl, inp)
    ELSE PyStr(n)

(***************************************************************************)
(* Bounds and the input trees.                                             *)
(***************************************************************************)
\* the largest number of declarator wrappers around a base type
MaxDepth == 3
\* the largest indent level a call is made at
MaxLevel == 2
\* the largest number of block items in a generated compound statement
MaxItems == 2

Field(key, value) == <<key, value>>
Node(tag, fields) == Dict(<<Field(K_nodetype, Str(tag))>> \o fields)

IdType(names) == Node(T_IdentifierType, <<Field(K_names, List(names))>>)
\* declname is a sequence of fields: <<>> when the key is missing
TypeDecl(declname, t) == Node(T_TypeDecl, declname \o <<Field(K_type, t)>>)
PtrDecl(t) == Node(T_PtrDecl, <<Field(K_type, t)>>)
FuncDecl(args, t) == Node(T_FuncDecl, args \o <<Field(K_type, t)>>)
Decl(name, t, init) == Node(T_Decl, name \o <<Field(K_type, t)>> \o init)
ParamList(params) == Node(T_ParamList, params)
FuncDef(decl, body) == Node(T_FuncDef, <<Field(K_decl, decl), Field(K_body, body)>>)
Compound(items) == Node(T_Compound, items)
ID(name) == Node(T_ID, <<Field(K_name, Str(name))>>)
Constant(value) == Node(T_Constant, <<Field(K_value, value)>>)
BinaryOp(op, l, r) ==
    Node(T_BinaryOp, <<Field(K_op, Str(op)), Field(K_left, l), Field(K_right, r)>>)
Assignment(l, r) ==
    Node(T_Assignment, <<Field(K_op, Str(L_eq)), Field(K_lvalue, l), Field(K_rvalue, r)>>)
Return(expr) == Node(T_Return, expr)
FuncCall(name, args) == Node(T_FuncCall, <<Field(K_name, name)>> \o args)
If(cond, iftrue) == Node(T_If, <<Field(K_cond, cond), Field(K_iftrue, iftrue)>>)
While(cond, stmt) == Node(T_While, <<Field(K_cond, cond), Field(K_stmt, stmt)>>)

IntType == IdType(<<Str(N_int)>>)
\* int <name>, as a variable or a parameter declaration
IntDecl(name) ==
    Decl(<<Field(K_name, Str(name))>>,
         TypeDecl(<<Field(K_declname, Str(name))>>, IntType), <<>>)

\* the 'declname' field of a TypeDecl in a declarator chain: null, or a name
DeclnameFields ==
    {<<Field(K_declname, None)>>, <<Field(K_declname, Str(N_x))>>,
     <<Field(K_declname, Str(N_f))>>}

\* every shape of the 'declname' field: also missing, and the empty string
AnyDeclnameFields == DeclnameFields \cup {<<>>, <<Field(K_declname, Str(L_empty))>>}

\* two nested name carriers, the inner one directly or inside a list
NestedDeclnames ==
    {TypeDecl(outer, TypeDecl(inner, IntType)) :
        outer \in AnyDeclnameFields, inner \in AnyDeclnameFields}
    \cup {Dict(outer \o <<Field(K_params, List(<<Str(N_a), TypeDecl(inner, IntType),
                                                  TypeDecl(<<Field(K_declname, Str(N_b))>>,
                                                           IntType)>>))>>) :
            outer \in AnyDeclnameFields, inner \in AnyDeclnameFields}

\* the 'args' field of a FuncDecl with no parameters: missing, null, a
\* ParamList without 'params', a ParamList with an empty 'params'
NoParamArgs ==
    {<<>>, <<Field(K_args, None)>>, <<Field(K_args, ParamList(<<>>))>>,
     <<Field(K_args, ParamList(<<Field(K_params, List(<<>>))>>))>>}

OneParamArgs == <<Field(K_args, ParamList(<<Field(K_params, List(<<IntDecl(N_a)>>))>>))>>
TwoParamArgs ==
    <<Field(K_args, ParamList(<<Field(K_params, List(<<IntDecl(N_a), IntDecl(N_b)>>))>>))>>

\* declarator chains: at most d wrappers (PtrDecl, TypeDecl, FuncDecl) around int
RECURSIVE Chains(_)
Chains(d) ==
    IF d = 0 THEN {IntType}
    ELSE LET inner == Chains(d - 1)
         IN inner
            \cup {PtrDecl(t) : t \in inner}
            \cup {TypeDecl(dn, t) : dn \in DeclnameFields, t \in inner}
            \cup {FuncDecl(<<Field(K_args, None)>>, t) : t \in inner}

\* function declarators: every parameter-list shape over a shorter chain
FuncDecls == {FuncDecl(a, t) : a \in NoParamArgs \cup {OneParamArgs}, t \in Chains(MaxDepth - 1)}

\* the 'name' field of a Decl: missing, or a name
NameFields == {<<>>, <<Field(K_name, Str(N_x))>>, <<Field(K_name, Str(N_f))>>}

Decls == {Decl(nm, t, <<>>) : nm \in NameFields, t \in Chains(MaxDepth) \cup FuncDecls}

\* int x; / char *name; / int add(int a, int b) { }
DeclIntX == IntDecl(N_x)
DeclCharPtrName ==
    Decl(<<Field(K_name, Str(N_name))>>,
         PtrDecl(TypeDecl(<<Field(K_declname, Str(N_name))>>, IdType(<<Str(N_char)>>))),
         <<>>)
DeclAdd ==
    Decl(<<Field(K_name, Str(N_add))>>,
         FuncDecl(TwoParamArgs, TypeDecl(<<Field(K_declname, Str(N_add))>>, IntType)),
         <<>>)
FuncDefAdd == FuncDef(DeclAdd, Compound(<<>>))

\* declarations with an initializer
InitDecls ==
    {Decl(<<Field(K_name, Str(N_x))>>, t, <<Field(K_init, Constant(Str(N_one)))>>) :
        t \in {TypeDecl(<<Field(K_declname, Str(N_x))>>, IntType),
               FuncDecl(<<>>, TypeDecl(<<Field(K_declname, Str(N_x))>>, IntType))}}

\* a node whose tag has no branch in generate_code, or which has no tag
Wrapped(tag, before, child, after) == Dict(tag \o before \o <<Field(K_attr, child)>> \o after)
UnhandledTags == {<<>>, <<Field(K_nodetype, Str(T_Pragma))>>, <<Field(K_nodetype, Str(T_Cast))>>}
PrimitiveFields ==
    {<<>>, <<Field(K_coord, Str(N_x))>>, <<Field(K_coord, Num(1))>>,
     <<Field(K_coord, None), Field(K_quals, Str(N_f))>>}

Expressions ==
    {ID(N_x), Constant(Str(N_one)), BinaryOp(N_plus, ID(N_x), Constant(Str(N_one))),
     FuncCall(ID(N_f), <<>>),
     FuncCall(ID(N_f), <<Field(K_args, Node(T_ExprList,
                                      <<Field(K_exprs, List(<<ID(N_x), ID(N_a)>>))>>))>>),
     Node(T_ArrayRef, <<Field(K_name, ID(N_a)), Field(K_subscript, ID(N_x))>>)}

\* the kinds of statement a block holds
BlockItems ==
    {DeclIntX, Return(<<>>), Return(<<Field(K_expr, ID(N_x))>>),
     Assignment(ID(N_x), Constant(Str(N_one))),
     If(ID(N_x), Compound(<<>>)), While(ID(N_x), Return(<<>>)),
     Compound(<<>>), FuncCall(ID(N_f), <<>>),
     Wrapped(<<Field(K_nodetype, Str(T_Pragma))>>, <<>>, ID(N_x), <<>>)}

RECURSIVE SeqsUpTo(_, _)
SeqsUpTo(S, n) ==
    IF n = 0 THEN {<<>>}
    ELSE LET shorter == SeqsUpTo(S, n - 1)
         IN shorter \cup {Append(s, x) : s \in shorter, x \in S}

Compounds ==
    {Compound(<<>>), Compound(<<Field(K_block_items, None)>>)}
    \cup {Compound(<<Field(K_block_items, List(items))>>) : items \in SeqsUpTo(BlockItems, MaxItems)}

HandledChildren == Expressions \cup {DeclIntX, DeclAdd, Return(<<>>), Compound(<<>>), IntType}

\* an unhandled node around exactly one structured child, among primitive fields
Wrappers ==
    {Wrapped(tag, before, child, after) :
        tag \in UnhandledTags, before \in PrimitiveFields \ {<<Field(K_coord, Num(1))>>},
        child \in HandledChildren, after \in {<<>>, <<Field(K_value, Str(N_b))>>}}

\* unhandled nodes with several structured children and sequence fields
MultiWrappers ==
    {Dict(tag \o <<Field(K_left, a), Field(K_coord, Str(N_x)), Field(K_exprs, List(items))>>
          \o <<Field(K_right, b)>>) :
        tag \in UnhandledTags, a \in {ID(N_x), DeclIntX},
        items \in {<<>>, <<ID(N_a), Constant(Str(N_one))>>, <<Str(N_b), ID(N_a)>>},
        b \in {ID(N_f), Return(<<>>)}}

\* trees whose fields hold a shape the handlers do not expect
OddShapes ==
    {Decl(<<Field(K_name, Str(N_x))>>, Str(N_int), <<>>),
     Decl(<<Field(K_name, Str(N_x))>>, List(<<IntType>>), <<>>),
     Decl(<<Field(K_name, None)>>, FuncDecl(<<>>, IntType), <<>>),
     FuncCall(ID(N_f), <<Field(K_args, List(<<ID(N_x)>>))>>),
     BinaryOp(N_plus, ID(N_x), Constant(Num(1))),
     Constant(Num(1)),
     IdType(<<Num(1)>>),
     Compound(<<Field(K_block_items, Num(1))>>),
     Decl(<<Field(K_name, Str(N_f))>>,
          FuncDecl(<<Field(K_args, ParamList(<<Field(K_params, None)>>))>>, IntType), <<>>)}

Primitives == {None, Str(L_empty), Str(N_x), Num(0), Num(12)}

Lists == {List(<<>>), List(<<DeclIntX, DeclAdd>>), List(<<Str(N_x), Num(1)>>)}

FileASTs ==
    {Node(T_FileAST, <<>>),
     Node(T_FileAST, <<Field(K_ext, List(<<DeclIntX, FuncDefAdd>>))>>)}

Trees ==
    Decls \cup InitDecls \cup {DeclIntX, DeclCharPtrName, DeclAdd, FuncDefAdd}
    \cup Compounds \cup Expressions \cup Wrappers \cup MultiWrappers
    \cup OddShapes \cup Primitives \cup Lists \cup FileASTs \cup NestedDeclnames

(***************************************************************************)
(* main(): one run of the command line program.                            *)
(***************************************************************************)
\* what open() and json.load() can find behind the file name
Files ==
    {[status |-> "unreadable", tree |-> None], [status |-> "malformed", tree |-> None]}
    \cup {[status |-> "ok", tree |-> t] :
            t \in Compounds \cup Expressions \cup OddShapes \cup Primitives \cup Lists
                  \cup FileASTs \cup {DeclIntX, DeclCharPtrName, DeclAdd, FuncDefAdd}}

NoFile == [status |-> "unreadable", tree |-> None]
FileName == <<"a", "s", "t", ".", "j", "s", "o", "n">>

CallIdle == node = None /\ level = 0 /\ in_param = FALSE /\ fn = "none" /\ result = None

InitMain ==
    /\ pc = "start"
    /\ argv \in {<<>>, <<FileName>>}
    /\ file \in Files
    /\ ast = None
    /\ ingest = "notstarted"
    /\ genCalls = <<>>
    /\ out = <<>>
    /\ CallIdle

\* len(sys.argv) < 2: print the usage line and return
Usage ==
    /\ pc = "start"
    /\ Len(argv) < 1
    /\ out' = Append(out, [what |-> "usage", text |-> None])
    /\ pc' = "done"
    /\ UNCHANGED <<argv, file, ast, ingest, genCalls>>
    /\ UNCHANGED callVars

\* Variant of ReadFail: the handler reports the failure and falls through.
ReadFailNoReturn ==
    /\ pc = "start"
    /\ Len(argv) >= 1
    /\ file.status # "ok"
    /\ ingest' = "failed"
    /\ out' = Append(out, [what |-> "error", text |-> None])
    /\ pc' = "generate"
    /\ UNCHANGED <<argv, file, ast, genCalls>>
    /\ UNCHANGED callVars

\* open() or json.load() raises: report it and return
ReadFail ==
    /\ pc = "start"
    /\ Len(argv) >= 1
    /\ file.status # "ok"
    /\ ingest' = "failed"
    /\ out' = Append(out, [what |-> "error", text |-> None])
    /\ pc' = "done"
    /\ UNCHANGED <<argv, file, ast, genCalls>>
    /\ UNCHANGED callVars

\* the file opens and decodes: ast is bound to the decoded root
ReadOk ==
    /\ pc = "start"
    /\ Len(argv) >= 1
    /\ file.status = "ok"
    /\ ast' = file.tree
    /\ ingest' = "ok"
    /\ pc' = "generate"
    /\ UNCHANGED <<argv, file, genCalls, out>>
    /\ UNCHANGED callVars

\* code = generate_code(ast); an exception it raises ends main with nothing printed
Generate ==
    /\ pc = "generate"
    /\ genCalls' = Append(genCalls, ast)
    /\ result' = generate_code(ast, 0, FALSE)
    /\ pc' = IF result'.kind = "error" THEN "raised" ELSE "print"
    /\ UNCHANGED <<argv, file, ast, ingest, out>>
    /\ UNCHANGED <<node, level, in_param, fn>>

\* print(code)
PrintCode ==
    /\ pc = "print"
    /\ out' = Append(out, [what |-> "code", text |-> result])
    /\ pc' = "done"
    /\ UNCHANGED <<argv, file, ast, ingest, genCalls>>
    /\ UNCHANGED callVars

main == Usage \/ ReadFail \/ ReadOk \/ Generate \/ PrintCode

Next == main

Spec == InitMain /\ [][Next]_vars

(***************************************************************************)
(* One call of generate_code or get_declname on an arbitrary tree.         *)
(***************************************************************************)
MainIdle ==
    /\ pc = "idle"
    /\ argv = <<>>
    /\ file = NoFile
    /\ ast = None
    /\ ingest = "notstarted"
    /\ genCalls = <<>>
    /\ out = <<>>

InitCall ==
    /\ node \in Trees
    /\ level = 0
    /\ in_param = FALSE
    /\ fn = "none"
    /\ result = None
    /\ MainIdle

CallGenerate ==
    /\ fn = "none"
    /\ \E lvl \in 0..MaxLevel, inp \in BOOLEAN :
          /\ level' = lvl
          /\ in_param' = inp
          /\ result' = generate_code(node, lvl, inp)
    /\ fn' = "generate_code"
    /\ UNCHANGED node
    /\ UNCHANGED mainVars

CallGetDeclname ==
    /\ fn = "none"
    /\ result' = get_declname(node)
    /\ fn' = "get_declname"
    /\ UNCHANGED <<node, level, in_param>>
    /\ UNCHANGED mainVars

NextCall == CallGenerate \/ CallGetDeclname

CallSpec == InitCall /\ [][NextCall]_vars

(***************************************************************************)
(* The properties.                                                         *)
(***************************************************************************)
\* Expected texts, as character sequences.
E_int_x == <<"i", "n", "t", " ", "x", ";">>
E_char_ptr_name == <<"c", "h", "a", "r", " ", "*", "n", "a", "m", "e", ";">>
E_add_own_line == <<"i", "n", "t", " ", "a", "d", "d", "(", "i", "n", "t", " ", "a", ",", " ", "i", "n", "t", " ", "b", ")", "\n", "{", "\n", "}">>
E_add_same_line == <<"i", "n", "t", " ", "a", "d", "d", "(", "i", "n", "t", " ", "a", ",", " ", "i", "n", "t", " ", "b", ")", " ", "{", "\n", "}">>
E_void_list == <<"(", "v", "o", "i", "d", ")">>
E_empty_list == <<"(", ")">>

HandledTags ==
    {T_FileAST, T_Decl, T_FuncDef, T_FuncDecl, T_TypeDecl, T_IdentifierType, T_PtrDecl,
     T_Typename, T_Compound, T_Return, T_FuncCall, T_Assignment, T_BinaryOp, T_ID,
     T_Constant, T_If, T_While, T_ArrayRef}

Generated == fn = "generate_code"
IsDict(n) == n.kind = "dict"
IsPrimitive(n) == n.kind \in {"str", "num", "null"}
HasHandledTag(n) == IsDict(n) /\ \E t \in HandledTags : IsTag(n, t)
Contains(s, sub) == \E i \in 1..(Len(s) - Len(sub) + 1) : SubSeq(s, i, i + Len(sub) - 1) = sub

\* C1 (Totality): every call of generate_code returns a string; none ends in an
\* unhandled exception and none returns a value that is not a string.
C1_Totality == Generated => result.kind = "str"

\* C2 (Declarator round-trip): at level 0 outside parameter context the tree of
\* `int x;` renders as exactly "int x;" and the tree of `char *name;` renders
\* as exactly "char *name;".
C2_DeclaratorRoundTrip ==
    (Generated /\ level = 0 /\ ~in_param) =>
        /\ node = DeclIntX => SameValue(result, Str(E_int_x))
        /\ node = DeclCharPtrName => SameValue(result, Str(E_char_ptr_name))

\* C3 as stated (Function signature composition): at level 0 the FuncDef of
\* `int add(int a, int b)` with an empty body renders as the signature, a
\* newline, "{", a newline and "}".
C3_SignatureThenNewline ==
    (Generated /\ level = 0 /\ node = FuncDefAdd) => SameValue(result, Str(E_add_own_line))

\* C3 as amended: at level 0 the FuncDef of `int add(int a, int b)` with an
\* empty body renders as the signature, one space, "{", a newline and "}".
C3_SignatureThenSpace ==
    (Generated /\ level = 0 /\ node = FuncDefAdd) => SameValue(result, Str(E_add_same_line))

C3_Witness ==
    Generated /\ level = 0 /\ ~in_param /\ node = FuncDefAdd
    /\ result.kind = "str" /\ Contains(result.v, L_comma) /\ EndsWith(result.v, <<"{", "\n", "}">>)

Punctuation == Whitespace \cup {"(", ")", "*", ",", ";", "=", "[", "]", "{", "}", "+"}

RECURSIVE IdentTokensFrom(_, _, _)
IdentTokensFrom(s, cur, acc) ==
    IF s = <<>> THEN (IF cur = <<>> THEN acc ELSE Append(acc, cur))
    ELSE IF Head(s) \in Punctuation
         THEN IdentTokensFrom(Tail(s), <<>>, IF cur = <<>> THEN acc ELSE Append(acc, cur))
         ELSE IdentTokensFrom(Tail(s), Append(cur, Head(s)), acc)

\* how many identifier tokens of the text s are the name
Occurrences(s, name) ==
    LET tokens == IdentTokensFrom(s, <<>>, <<>>)
    IN Cardinality({i \in 1..Len(tokens) : tokens[i] = name})

IsDeclaratorChainDecl(n) == n \in Decls
DeclName(n) == GetD(n, K_name, Str(L_empty))

\* C4 (Name de-duplication): a Decl with a non-empty name over a declarator
\* chain whose resolved declname is that name renders the name exactly once.
C4_NameOnce ==
    (Generated /\ IsDeclaratorChainDecl(node) /\ Truthy(DeclName(node))
     /\ SameValue(get_declname(Get(node, K_type)), DeclName(node)))
        => result.kind = "str" /\ Occurrences(result.v, DeclName(node).v) = 1

\* C5 (Parameter-context suppression): at level L >= 1 a Decl rendered in
\* parameter context has no leading indent and no trailing ";", and the same
\* Decl rendered at statement position starts with exactly L indent units and
\* ends with ";".
C5_ParamSuppression ==
    (Generated /\ IsDeclaratorChainDecl(node) /\ level >= 1) =>
        /\ result.kind = "str"
        /\ in_param => ~StartsWith(result.v, L_indent) /\ ~EndsWith(result.v, L_semi)
        /\ ~in_param => /\ StartsWith(result.v, indent_str(level))
                        /\ ~StartsWith(result.v, indent_str(level) \o L_space)
                        /\ EndsWith(result.v, L_semi)

IsGeneratedCompound(n) ==
    /\ IsDict(n) /\ IsTag(n, T_Compound)
    /\ Get(n, K_block_items).kind = "list"

\* s starts with exactly lvl indent units
IndentedExactly(s, lvl) ==
    /\ StartsWith(s, indent_str(lvl))
    /\ ~StartsWith(s, indent_str(lvl) \o L_space)

\* C6 (Indentation monotonicity): in a Compound rendered at level L the
\* rendering of every block item starts with exactly L+1 indent units, the
\* first line is L indent units and "{", the last line L indent units and "}".
C6_BlockIndentation ==
    (Generated /\ IsGeneratedCompound(node)) =>
        LET items == Get(node, K_block_items).v
            rendered == [i \in 1..Len(items) |-> generate_code(items[i], level + 1, FALSE)]
        IN /\ result.kind = "str"
           /\ StartsWith(result.v, indent_str(level) \o L_lbrace \o L_newline)
           /\ EndsWith(result.v, L_newline \o indent_str(level) \o L_rbrace)
           /\ SameValue(result,
                        Join(L_newline, <<Str(indent_str(level) \o L_lbrace)>> \o rendered
                                        \o <<Str(indent_str(level) \o L_rbrace)>>))
           /\ \A i \in 1..Len(items) :
                 rendered[i].kind = "str" /\ IndentedExactly(rendered[i].v, level + 1)

\* n is a Decl whose type is a FuncDecl
IsFuncDeclaration(n) ==
    /\ IsDict(n) /\ IsTag(n, T_Decl)
    /\ IsDict(Get(n, K_type)) /\ IsTag(Get(n, K_type), T_FuncDecl)
\* a FuncDecl without parameters: 'args' missing or null, or a ParamList whose
\* 'params' is missing, empty or null
ZeroParams(funcdecl) ==
    LET args == Get(funcdecl, K_args)
    IN \/ args.kind = "null"
       \/ IsDict(args) /\ GetD(args, K_params, List(<<>>)) \in {List(<<>>), None}

Min(S) == CHOOSE x \in S : \A y \in S : x <= y
Positions(s, c) == {i \in 1..Len(s) : s[i] = c}
\* the text from the first "(" through the first ")" of s
FirstParenthesized(s) ==
    IF Positions(s, "(") = {} \/ Positions(s, ")") = {} THEN <<>>
    ELSE SubSeq(s, Min(Positions(s, "(")), Min(Positions(s, ")")))

\* C7 (No-parameter marker): whenever a Decl over a FuncDecl with zero
\* parameters is rendered, its parameter list is exactly "(void)" and the text
\* "()" does not occur.
C7_NoParamMarker ==
    (Generated /\ IsFuncDeclaration(node) /\ ZeroParams(Get(node, K_type))
     /\ result.kind # "error")
        => /\ result.kind = "str"
           /\ FirstParenthesized(result.v) = E_void_list
           /\ ~Contains(result.v, E_empty_list)

C7_Witness ==
    /\ Generated /\ IsFuncDeclaration(node)
    /\ IsDict(Get(Get(node, K_type), K_args))
    /\ Get(Get(Get(node, K_type), K_args), K_params) = List(<<>>)
    /\ result.kind = "str" /\ Contains(result.v, E_void_list)

Printed(what) == {i \in 1..Len(out) : out[i].what = what}

\* C8 (No generation on malformed input): main calls generate_code at most
\* once, only after ingestion succeeded and on the decoded root; when reading or
\* decoding fails the failure is reported and nothing is generated or printed as
\* code; without a file argument neither ingestion nor generation starts.
C8_NoGenerationOnMalformedInput ==
    /\ Len(genCalls) <= 1
    /\ genCalls # <<>> => ingest = "ok" /\ file.status = "ok" /\ genCalls[1] = file.tree
    /\ Printed("code") # {} => genCalls # <<>>
    /\ ingest = "failed" =>
          genCalls = <<>> /\ Printed("code") = {} /\ Printed("error") # {}
          /\ pc = "done"
    /\ file.status # "ok" => genCalls = <<>> /\ ingest # "ok"
    /\ argv = <<>> => ingest = "notstarted" /\ genCalls = <<>> /\ Printed("code") = {}
    /\ pc \in {"print", "raised"} => Len(genCalls) = 1

C8_Witness ==
    /\ pc = "done" /\ argv # <<>> /\ file.status = "malformed"
    /\ ingest = "failed" /\ genCalls = <<>> /\ Printed("error") # {}

IsUnhandled(n) == IsDict(n) /\ ~HasHandledTag(n)
DictFields(n) == {i \in 1..Len(n.v) : n.v[i][2].kind = "dict"}
\* an unhandled node with one dict-valued field, holding a handled node, and
\* otherwise only primitive-valued fields
IsSingleWrapper(n) ==
    /\ IsUnhandled(n)
    /\ Cardinality(DictFields(n)) = 1
    /\ \A i \in DictFields(n) : HasHandledTag(n.v[i][2])
    /\ \A i \in 1..Len(n.v) : i \in DictFields(n) \/ IsPrimitive(n.v[i][2])
TheChild(n) == n.v[CHOOSE i \in DictFields(n) : TRUE][2]

\* the characters of the renderings of fields i.. of n, in field order: a dict
\* field's rendering, a list field's element renderings, nothing for a primitive
RECURSIVE RenderedFrom(_, _, _, _)
RenderedFrom(n, i, lvl, inp) ==
    IF i > Len(n.v) THEN <<>>
    ELSE LET value == n.v[i][2]
             texts == CASE value.kind = "dict" -> generate_code(value, lvl, inp).v
                        [] value.kind = "list" ->
                             JoinChars(<<>>, GenEach(value.v, lvl, inp))
                        [] OTHER -> <<>>
         IN texts \o RenderedFrom(n, i + 1, lvl, inp)

\* every dict field and every element of every list field of n renders as a string
AllRenderable(n, lvl, inp) ==
    \A i \in 1..Len(n.v) :
        LET value == n.v[i][2]
        IN /\ value.kind = "dict" => generate_code(value, lvl, inp).kind = "str"
           /\ value.kind = "list" =>
                 \A j \in 1..Len(value.v) : generate_code(value.v[j], lvl, inp).kind = "str"

\* C9 (Fallback coverage): an unhandled node around exactly one handled child
\* and primitive fields renders as exactly the child renders; any unhandled
\* node renders as the renderings of its dict fields and list elements, in field
\* order, with nothing between them and nothing for the tag or a primitive field.
C9_FallbackCoverage ==
    Generated =>
        /\ IsSingleWrapper(node) =>
              SameValue(result, generate_code(TheChild(node), level, in_param))
        /\ (IsUnhandled(node) /\ AllRenderable(node, level, in_param)) =>
              SameValue(result, Str(RenderedFrom(node, 1, level, in_param)))
        /\ (IsUnhandled(node) /\ ~AllRenderable(node, level, in_param)) =>
              result.kind = "error"

C9_Witness ==
    /\ Generated /\ IsSingleWrapper(node)
    /\ Len(node.v) >= 3 /\ Has(node, K_nodetype)
    /\ result.kind = "str" /\ result.v # <<>>

\* the non-empty 'declname' values of n in pre-order: a dict's own before its
\* fields' values in insertion order, list elements in order
RECURSIVE PreOrderDeclnames(_)
RECURSIVE PreOrderOfAll(_)
PreOrderOfAll(values) ==
    IF values = <<>> THEN <<>>
    ELSE PreOrderDeclnames(Head(values)) \o PreOrderOfAll(Tail(values))
PreOrderDeclnames(n) ==
    CASE n.kind = "dict" ->
           (IF Has(n, K_declname) /\ Truthy(Lookup(n, K_declname))
            THEN <<Lookup(n, K_declname)>> ELSE <<>>)
           \o PreOrderOfAll(Values(n))
      [] n.kind = "list" -> PreOrderOfAll(n.v)
      [] OTHER -> <<>>

\* C10 (Declarator-name resolver): get_declname returns the first non-empty
\* 'declname' in pre-order, None when there is none (so for every primitive),
\* never an empty name and never an exception.
C10_FirstDeclnameInPreOrder ==
    fn = "get_declname" =>
        LET names == PreOrderDeclnames(node)
        IN /\ result.kind # "error"
           /\ ~SameValue(result, Str(L_empty))
           /\ names = <<>> => result = None
           /\ names # <<>> => SameValue(result, names[1])
           /\ IsPrimitive(node) => result = None

C10_Witness ==
    /\ fn = "get_declname"
    /\ Len(PreOrderDeclnames(node)) >= 2
    /\ PreOrderDeclnames(node)[1] # PreOrderDeclnames(node)[2]
    /\ SameValue(result, PreOrderDeclnames(node)[1])

====
